---------------------------- MODULE Spec2Model ----------------------------
(***************************************************************************)
(* DoctorAI backend (src/backend/app.py): consent-gated session memory,    *)
(* audit log, response cache, urgency classification and the generation    *)
(* client, modelled as a state machine.                                    *)
(*                                                                         *)
(* Texts are TLA+ strings; TLC evaluates Len, Head, Tail, SubSeq and \o on *)
(* them, so the text functions below work character by character.          *)
(*                                                                         *)
(* The two JSON documents (session_memory.json, ai_cache.json) are shared  *)
(* by all request threads.  load_json and save_json are each one step: a   *)
(* handler's read-modify-write of a document is a load step followed,      *)
(* possibly after steps of other threads, by a save step.                  *)
(***************************************************************************)
EXTENDS Integers, Sequences, FiniteSets, TLC

VARIABLES
    session,        \* content of local_db/session_memory.json
    cache,          \* content of local_db/ai_cache.json: prompt digest -> entry
    now,            \* the clock, in seconds (time.time())
    pc,             \* per thread: position in chat / ask_ai_stream
    message,        \* per thread: the request's message
    session_data,   \* per thread: chat's local copy of the session document
    data,           \* per thread: remember_question's / log_interaction's copy
    additional_info,\* per thread: the local facts handed to the prompt
    urgency,        \* per thread: classify_urgency's result (or NoUrgency)
    urgency_level,  \* per thread: the level chat hands to log_interaction
    urgency_info,   \* per thread: the urgency note handed to the prompt
    stream,         \* per thread: ask_ai_stream's stream argument
    full_prompt,    \* per thread: the built prompt
    lines,          \* per thread: backend stream lines not yet consumed
    cache_data,     \* per thread: cache_set's local copy of the cache document
    full_text,      \* per thread: the text ask_ai_stream holds (to cache)
    emitted,        \* per thread: the chunks the generator has yielded
    retval,         \* per thread: the generator's return value
    reply,          \* per thread: the JSON reply chat returned itself
    effects,        \* per thread: operations the current request performed
    calls,          \* number of requests / direct calls started so far
    backend,        \* what the backend answers to a classification call
    backendCalls,   \* number of generation requests sent to the backend
    answer,         \* what check_local_db returned, when called on its own
    recalled,       \* what recall_user_context returned, when called on its own
    completed,      \* the finished runs of ask_ai_stream, in order: prompt,
                    \* mode, time, outcome, chunks yielded, value returned
    remembered,     \* history entries appended by remember_question, in order
    logged,         \* audit entries appended by log_interaction, in order
    loggedConsented \* those of them appended while consent was stored

vars == << session, cache, now, pc, message, session_data, data,
           additional_info, urgency, urgency_level, urgency_info, stream,
           full_prompt, lines, cache_data, full_text, emitted, retval, reply,
           effects, calls, backend, backendCalls, answer, recalled, completed,
           remembered, logged, loggedConsented >>

-----------------------------------------------------------------------------
(* Text helpers: Python's str methods used by the program.                 *)

None == "<None>"

Whitespace == {" ", "\t", "\n", "\r"}

UpperLetters == <<"A","B","C","D","E","F","G","H","I","J","K","L","M",
                  "N","O","P","Q","R","S","T","U","V","W","X","Y","Z">>

LowerLetters == <<"a","b","c","d","e","f","g","h","i","j","k","l","m",
                  "n","o","p","q","r","s","t","u","v","w","x","y","z">>

Digits == {"0","1","2","3","4","5","6","7","8","9"}

IndexIn(c, letters) ==
    IF \E i \in 1..Len(letters) : letters[i] = c
    THEN CHOOSE i \in 1..Len(letters) : letters[i] = c
    ELSE 0

LowerChar(c) ==
    IF IndexIn(c, UpperLetters) > 0 THEN LowerLetters[IndexIn(c, UpperLetters)] ELSE c

UpperChar(c) ==
    IF IndexIn(c, LowerLetters) > 0 THEN UpperLetters[IndexIn(c, LowerLetters)] ELSE c

\* str.lower and str.upper: character by character (the text is halved at
\* each level to keep the evaluation shallow)
RECURSIVE lower(_)
lower(s) ==
    IF s = "" THEN ""
    ELSE IF Len(s) = 1 THEN LowerChar(s)
    ELSE lower(SubSeq(s, 1, Len(s) \div 2)) \o lower(SubSeq(s, Len(s) \div 2 + 1, Len(s)))

RECURSIVE upper(_)
upper(s) ==
    IF s = "" THEN ""
    ELSE IF Len(s) = 1 THEN UpperChar(s)
    ELSE upper(SubSeq(s, 1, Len(s) \div 2)) \o upper(SubSeq(s, Len(s) \div 2 + 1, Len(s)))

RECURSIVE lstrip(_)
lstrip(s) == IF s # "" /\ Head(s) \in Whitespace THEN lstrip(Tail(s)) ELSE s

RECURSIVE rstrip(_)
rstrip(s) ==
    IF s # "" /\ SubSeq(s, Len(s), Len(s)) \in Whitespace
    THEN rstrip(SubSeq(s, 1, Len(s) - 1))
    ELSE s

strip(s) == rstrip(lstrip(s))

\* Python's "p in s"
Contains(s, p) ==
    \E i \in 1..(Len(s) - Len(p) + 1) : SubSeq(s, i, i + Len(p) - 1) = p

StartsWith(s, p) == Len(p) <= Len(s) /\ SubSeq(s, 1, Len(p)) = p

EndsWith(s, p) == Len(p) <= Len(s) /\ SubSeq(s, Len(s) - Len(p) + 1, Len(s)) = p

\* Python's seq[-n:]
LastN(seq, n) == IF Len(seq) <= n THEN seq ELSE SubSeq(seq, Len(seq) - n + 1, Len(seq))

RECURSIVE Concat(_)
Concat(seq) == IF seq = << >> THEN "" ELSE Head(seq) \o Concat(Tail(seq))


-----------------------------------------------------------------------------
(* Program constants.                                                      *)

\* app.py:49-56; the leading warning sign is written (!) here
ETHICS_DISCLAIMER ==
    "\n(!) IMPORTANT ETHICS NOTICE: \n"
    \o "I am DoctorAI, an AI tool for educational guidance based on AHA/WHO data. \n"
    \o "I am NOT a doctor and cannot diagnose, treat, or provide medical advice. \n"
    \o "Always consult a certified cardiologist for your health. \n"
    \o "Your data is anonymous and not stored without consent. \n"
    \o "If in doubt, seek immediate professional help.\n"

HISTORY_KEEP == 5          \* history[-5:]
AUDIT_KEEP == 100          \* logs[-100:]
REDACT_MIN == 5            \* \w{5,}
CACHE_TTL == 3600          \* 60*60
CHUNK == 200               \* range(0, len(full_text), 200)

-----------------------------------------------------------------------------
(* Session memory: local_db/session_memory.json.                           *)

\* the document written at start-up when the file does not exist
InitialSession ==
    [previous_questions |-> << >>, user_consent |-> FALSE, audit_logs |-> << >>]

WordChars ==
    {LowerLetters[i] : i \in 1..26} \cup {UpperLetters[i] : i \in 1..26}
        \cup Digits \cup {"_"}

\* length of the run of word characters s starts with
RECURSIVE WordRunLen(_)
WordRunLen(s) ==
    IF s # "" /\ Head(s) \in WordChars THEN 1 + WordRunLen(Tail(s)) ELSE 0

\* re.sub(r'\b\w{5,}\b', '[REDACTED]', message): every maximal run of word
\* characters of length >= 5 is replaced
RECURSIVE Redact(_)
Redact(s) ==
    IF s = "" THEN ""
    ELSE IF Head(s) \in WordChars
         THEN LET n == WordRunLen(s)
              IN  (IF n >= REDACT_MIN THEN "[REDACTED]" ELSE SubSeq(s, 1, n))
                      \o Redact(SubSeq(s, n + 1, Len(s)))
         ELSE Head(s) \o Redact(Tail(s))

\* a truncation that keeps the oldest entries instead of the newest
remember_question_keep_oldest(doc, question, t) ==
    [doc EXCEPT !.previous_questions =
                    SubSeq(Append(@, [q |-> question, t |-> t]), 1,
                           IF Len(@) + 1 < HISTORY_KEEP THEN Len(@) + 1 ELSE HISTORY_KEEP)]

\* remember_question after its consent check: append, truncate, save
remember_question_save(doc, question, t) ==
    [doc EXCEPT !.previous_questions =
                    LastN(Append(@, [q |-> question, t |-> t]), HISTORY_KEEP)]

\* remember_question run without interleaving, as a function of the document
remember_question(doc, question, t) ==
    IF ~doc.user_consent THEN doc ELSE remember_question_save(doc, question, t)

\* a log_interaction that writes a document holding its audit log only
log_interaction_audit_only(doc, msg, level, t) ==
    [InitialSession EXCEPT !.audit_logs =
        LastN(Append(doc.audit_logs,
                     [timestamp |-> t, anon_query |-> Redact(msg),
                      response_level |-> level]), AUDIT_KEEP)]

\* log_interaction, as a function of the document it loaded
log_interaction(doc, msg, level, t) ==
    [doc EXCEPT !.audit_logs =
                    LastN(Append(@, [timestamp |-> t, anon_query |-> Redact(msg),
                                     response_level |-> level]), AUDIT_KEEP)]

\* a recall that names the oldest entry of the history
recall_user_context_oldest(doc) ==
    IF ~doc.user_consent THEN ""
    ELSE IF doc.previous_questions # << >>
         THEN "Earlier you asked: '"
                  \o doc.previous_questions[1].q \o "'"
         ELSE ""

recall_user_context(doc) ==
    IF ~doc.user_consent THEN ""
    ELSE IF doc.previous_questions # << >>
         THEN "Earlier you asked: '"
                  \o doc.previous_questions[Len(doc.previous_questions)].q \o "'"
         ELSE ""

\* a consent test that compares the message as typed
IsAffirmative_AsTyped(msg) == msg \in {"yes", "y", "consent", "consent granted"}

\* chat's consent test on the lowercased message
IsAffirmative(msg) == lower(msg) \in {"yes", "y", "consent", "consent granted"}

\* chat's two consent writes: {**session_data, CONSENT_KEY: True / False}
consent_doc(doc, msg) == [doc EXCEPT !.user_consent = IsAffirmative(msg)]

-----------------------------------------------------------------------------
(* Urgency: the emergency gate and the backend classification.             *)

\* EMERGENCY_PATTERNS: the literal alternatives of each of the 12 regular
\* expressions; can\'?t is written as its two spellings, sudden(ly)? as its
\* two words, and the one alternative that is not a literal,
\* for ([0-9]+ )?(minutes|minuts?|hours?), is ForDuration below
EMERGENCY_PATTERNS == <<
    { "chest pain", "chest discomfort", "angina", "pressure in chest",
      "tightness in chest", "burning in chest", "heavy chest",
      "squeezing chest" },
    { "shortness of breath", "difficulty breathing", "sob", "breathless",
      "can't breathe", "cant breathe", "gasping for air",
      "trouble breathing" },
    { "heart attack", "myocardial infarction", "mi", "cardiac arrest" },
    { "severe pain", "unbearable pain", "excruciating pain",
      "radiating to arm", "radiating to jaw", "radiating to neck",
      "radiating to back", "pain in shoulder blade", "arm numbness" },
    { "nausea", "vomiting", "vomit", "cold sweat", "clammy sweat",
      "excessive sweating", "lightheaded", "dizzy", "faint", "fainting",
      "confusion", "disorientation", "extreme fatigue",
      "severe tiredness" },
    { "irregular heartbeat", "palpitations severe", "fast heartbeat",
      "racing heart", "heart skipping beats", "passing out",
      "loss of consciousness", "syncope", "blackout" },
    { "sudden", "suddenly", "acute", "worsening fast", "rapid worsening",
      "lasting long", "persistent", "ongoing for a while" },
    { "unusual fatigue", "extreme tiredness", "jaw pain",
      "upper back pain", "stomach pain", "epigastric pain",
      "indigestion", "heartburn feeling", "mid-back pain",
      "shoulder discomfort" },
    { "sudden severe back pain", "ripping pain", "tearing pain",
      "chest and back pain", "sharp chest pain sudden",
      "pulmonary embolism", "lung clot", "blood clot in lung" },
    { "swelling in legs", "edema", "leg swelling", "ankle swelling",
      "blue lips", "cyanosis", "bluish skin", "rapid breathing",
      "tachypnea" },
    { "sudden weakness", "arm weakness", "face drooping",
      "slurred speech", "difficulty speaking", "stroke symptoms",
      "sudden numbness" },
    { "swollen ankles", "feet swelling",
      "difficulty breathing lying down", "orthopnea",
      "waking up breathless", "paroxysmal nocturnal dyspnea",
      "coughing at night", "pink frothy sputum" }
    >>

DurationUnits == {"minutes", "minut", "minuts", "hour", "hours"}

RECURSIVE DigitRunLen(_)
DigitRunLen(s) == IF s # "" /\ Head(s) \in Digits THEN 1 + DigitRunLen(Tail(s)) ELSE 0

StartsWithUnit(s) == \E u \in DurationUnits : StartsWith(s, u)

\* re.search(r"for ([0-9]+ )?(minutes|minuts?|hours?)", s)
ForDuration(s) ==
    \E i \in 1..(Len(s) - 3) :
        /\ SubSeq(s, i, i + 3) = "for "
        /\ LET rest == SubSeq(s, i + 4, Len(s))
               d == DigitRunLen(rest)
           IN  \/ StartsWithUnit(rest)
               \/ /\ d >= 1
                  /\ Len(rest) > d
                  /\ SubSeq(rest, d + 1, d + 1) = " "
                  /\ StartsWithUnit(SubSeq(rest, d + 2, Len(rest)))

\* re.search(EMERGENCY_PATTERNS[i], s)
PatternMatches(i, s) ==
    \/ \E alt \in EMERGENCY_PATTERNS[i] : Contains(s, alt)
    \/ i = 7 /\ ForDuration(s)

is_potential_emergency(msg) ==
    LET msg_lower == lower(msg)
    IN  \E i \in 1..Len(EMERGENCY_PATTERNS) : PatternMatches(i, msg_lower)

\* Confidences are written in hundredths (1.0 is 100, 0.8 is 80, 0.5 is 50).
\* What the backend does with a classification request: the transport may
\* fail (err), the reply has an HTTP status, and its body is unparseable
\* ("garbled"), JSON that is no object ("list"), or an object whose
\* 'response' member is a text or absent (None).
Level3 ==
    [level |-> 3, action |-> "General advice follows.", confidence |-> 50,
     reason |-> ""]

\* requests' Response.ok
ResponseOk(status) == status < 400

\* a classifier that looks for the level as the backend spelled it
classify_urgency_as_spelled(o) ==
    IF o.err # "none" THEN Level3                     \* requests.post raises
    ELSE IF ~ResponseOk(o.status) THEN Level3
    ELSE IF o.body.kind # "object" THEN Level3        \* resp.json() / .get raises
    ELSE LET result == strip(IF o.body.response = None THEN "" ELSE o.body.response)
         IN  IF Contains(result, "LEVEL 1")
             THEN [level |-> 1,
                   action |-> "EMERGENCY! Call 108 or go to nearest hospital IMMEDIATELY. Do not wait.",
                   confidence |-> 100, reason |-> result]
             ELSE IF Contains(result, "LEVEL 2")
             THEN [level |-> 2,
                   action |-> "URGENT: Contact a doctor or clinic within 24 hours.",
                   confidence |-> 80, reason |-> result]
             ELSE Level3

\* lines 239-249: the reply of the backend, o, read into an urgency result
classify_urgency(o) ==
    IF o.err # "none" THEN Level3                     \* requests.post raises
    ELSE IF ~ResponseOk(o.status) THEN Level3
    ELSE IF o.body.kind # "object" THEN Level3        \* resp.json() / .get raises
    ELSE LET result == strip(IF o.body.response = None THEN "" ELSE o.body.response)
         IN  IF Contains(upper(result), "LEVEL 1")
             THEN [level |-> 1,
                   action |-> "EMERGENCY! Call 108 or go to nearest hospital IMMEDIATELY. Do not wait.",
                   confidence |-> 100, reason |-> result]
             ELSE IF Contains(upper(result), "LEVEL 2")
             THEN [level |-> 2,
                   action |-> "URGENT: Contact a doctor or clinic within 24 hours.",
                   confidence |-> 80, reason |-> result]
             ELSE Level3

-----------------------------------------------------------------------------
(* Local knowledge: the JSON stores under local_db/ and data_sources/.     *)
(* The stores are data files; the entries below are sample content, kept   *)
(* in file order (a Python dict iterates in insertion order).              *)

CARDIO_FAQ == <<
    [k |-> "what foods are good for the heart",
     v |-> "Vegetables, fruit, whole grains and fish."],
    [k |-> "what is angina",
     v |-> "Angina is chest pain from reduced blood flow to the heart."],
    [k |-> "what is anemia",
     v |-> "Anemia is a lack of healthy red blood cells."] >>

CARDIO_TIPS == <<
    [k |-> "salt", v |-> "Keep salt under 5 g a day."],
    [k |-> "heart", v |-> "Walk 30 minutes a day."] >>

CLINIC_LIST == <<
    [name |-> "City Heart Clinic", phone |-> "555-0101"],
    [name |-> "Metro Cardiology", phone |-> None] >>

SYMPTOM_MAP_DATA == <<
    [k |-> "chest pain", v |-> <<"angina", "myocardial infarction">>],
    [k |-> "pain", v |-> <<"muscle strain">>] >>

WHO_DATA_MAP == <<
    [k |-> "chest pain", v |-> "WHO: chest pain lasting minutes needs urgent care."] >>

\* sep.join(seq)
RECURSIVE Join(_, _)
Join(seq, sep) ==
    IF seq = << >> THEN ""
    ELSE IF Len(seq) = 1 THEN seq[1]
    ELSE seq[1] \o sep \o Join(Tail(seq), sep)

\* the entries of a store whose key occurs in q_lower, in store order
RECURSIVE KeysIn(_, _)
KeysIn(store, q_lower) ==
    IF store = << >> THEN << >>
    ELSE (IF Contains(q_lower, Head(store).k) THEN << Head(store) >> ELSE << >>)
             \o KeysIn(Tail(store), q_lower)

Min(a, b) == IF a <= b THEN a ELSE b

Max(a, b) == IF a >= b THEN a ELSE b

MaxOf(S) == CHOOSE x \in S : \A y \in S : y <= x

\* one row of the longest-common-subsequence table from the row before it:
\* entry j + 1 is the length for the characters of a read so far and the
\* first j characters of b
LcsRow(prev, ch, b) ==
    SubSeq([j \in 1..(Len(b) + 1) |->
               MaxOf({prev[j]} \cup {prev[k] + 1 : k \in {k \in 1..(j - 1) : SubSeq(b, k, k) = ch}})],
           1, Len(b) + 1)

RECURSIVE LcsRows(_, _, _)
LcsRows(a, b, prev) ==
    IF a = "" \/ Len(prev) # Len(b) + 1 THEN prev[Len(b) + 1]
    ELSE LcsRows(Tail(a), b, LcsRow(prev, Head(a), b))

\* length of the longest common subsequence of a and b (the two texts are
\* evaluated once, before the table is built)
Lcs(a, b) ==
    CHOOSE n \in { LcsRows(x, y, SubSeq([j \in 1..(Len(y) + 1) |-> 0], 1, Len(y) + 1)) :
                       x \in {a}, y \in {b} } : TRUE

\* fuzzywuzzy's fuzz.ratio (library code): int(round(100 * 2*M / T)) with M
\* the matched characters and T the total length; 0 for an empty string
fuzz_ratio(a, b) ==
    IF a = "" \/ b = "" THEN 0
    ELSE (2 * 100 * 2 * Lcs(a, b) + (Len(a) + Len(b))) \div (2 * (Len(a) + Len(b)))

match_symptoms(question) ==
    LET q_lower == lower(question)
        matches == KeysIn(SYMPTOM_MAP_DATA, q_lower)
    IN  IF matches # << >>
        THEN Join([i \in 1..Len(matches) |->
                      "'" \o matches[i].k \o "': possible -> " \o Join(matches[i].v, ", ")],
                  "; ")
        ELSE None

\* the FAQ loop of check_local_db: the first entry with the highest score,
\* as <<index, score>>; <<0, 0>> when no entry scores above 0
RECURSIVE BestFaq(_, _, _)
BestFaq(i, q_lower, best) ==
    IF i > Len(CARDIO_FAQ) THEN best
    ELSE LET score == fuzz_ratio(CARDIO_FAQ[i].k, q_lower)
         IN  BestFaq(i + 1, q_lower, IF score > best[2] THEN << i, score >> ELSE best)

FAQ_THRESHOLD == 60

\* the None that check_local_db and check_who_data return
NoAnswer == [answer |-> None, confidence |-> 0]

\* a matcher whose FAQ threshold is inclusive
check_local_db_inclusive(question) ==
    LET q_lower == lower(question)
        best == BestFaq(1, q_lower, << 0, 0 >>)
        tips == KeysIn(CARDIO_TIPS, q_lower)
    IN  IF best[1] # 0 /\ best[2] >= FAQ_THRESHOLD
        THEN [answer |-> CARDIO_FAQ[best[1]].v, confidence |-> best[2]]
        ELSE IF tips # << >>
        THEN [answer |-> tips[1].v, confidence |-> 80]
        ELSE IF Contains(q_lower, "clinic") \/ Contains(q_lower, "hospital")
        THEN [answer |->
                  "Here are some local cardiology clinics: "
                  \o Join([i \in 1..Len(CLINIC_LIST) |->
                              CLINIC_LIST[i].name \o " ("
                              \o (IF CLINIC_LIST[i].phone = None THEN "N/A"
                                  ELSE CLINIC_LIST[i].phone) \o ")"], ", "),
              confidence |-> 70]
        ELSE NoAnswer

\* lines 114-142
check_local_db(question) ==
    LET q_lower == lower(question)
        best == BestFaq(1, q_lower, << 0, 0 >>)
        tips == KeysIn(CARDIO_TIPS, q_lower)
    IN  IF best[1] # 0 /\ best[2] > FAQ_THRESHOLD
        THEN [answer |-> CARDIO_FAQ[best[1]].v, confidence |-> best[2]]
        ELSE IF tips # << >>
        THEN [answer |-> tips[1].v, confidence |-> 80]
        ELSE IF Contains(q_lower, "clinic") \/ Contains(q_lower, "hospital")
        THEN [answer |->
                  "Here are some local cardiology clinics: "
                  \o Join([i \in 1..Len(CLINIC_LIST) |->
                              CLINIC_LIST[i].name \o " ("
                              \o (IF CLINIC_LIST[i].phone = None THEN "N/A"
                                  ELSE CLINIC_LIST[i].phone) \o ")"], ", "),
              confidence |-> 70]
        ELSE NoAnswer

check_who_data(question) ==
    LET q_lower == lower(question)
        hits == KeysIn(WHO_DATA_MAP, q_lower)
    IN  IF hits # << >> THEN [answer |-> hits[1].v, confidence |-> 85] ELSE NoAnswer

\* chat, lines 384-395: the list handed to ask_ai_stream; an empty list
\* stands for the None that chat passes instead of it (both are false)
collect_additional_info(msg) ==
    LET symptom_str == match_symptoms(msg)
        local == check_local_db(msg)
        who == check_who_data(msg)
        info == (IF symptom_str # None THEN << "Symptom matcher: " \o symptom_str >> ELSE << >>)
                \o (IF local # NoAnswer THEN << "Local DB info: " \o local.answer >> ELSE << >>)
                \o (IF who # NoAnswer THEN << "WHO data: " \o who.answer >> ELSE << >>)
    IN  info

-----------------------------------------------------------------------------
(* Prompt builder and response cache.                                      *)

build_prompt(context, msg, additional_info_, urgency_info_) ==
    "\nYou are DoctorAI, a virtual cardiologist. Follow WHO 2025 AI Ethics: "
    \o "Be transparent, empathetic, equitable. Use simple English. "
    \o "NEVER diagnose - say 'possible' or 'suggest consulting'.\n"
    \o "If emergent, prioritize safety over advice.\n"
    \o "End EVERY response with the following disclaimer: " \o ETHICS_DISCLAIMER
    \o "\n\n" \o context \o "\nUser: " \o msg \o "\n"
    \o (IF urgency_info_ # None /\ urgency_info_ # ""
        THEN "\nURGENCY ALERT: " \o urgency_info_
             \o "\nInclude this prominently at the beginning of your response to ensure user safety."
        ELSE "")
    \o (IF additional_info_ # << >>
        THEN "\nRELEVANT DATA FROM LOCAL DB/WHO/SYMPTOM MATCHES:\n"
             \o Join(additional_info_, "\n")
             \o "\nIncorporate this information accurately into your response to provide comprehensive guidance."
        ELSE "")

\* hashlib.sha256(prompt).hexdigest(): a digest is taken to identify its
\* prompt (no collisions)
cache_key_of(prompt) == << "sha256", prompt >>

\* the None that cache_get returns for a key the document does not hold
NoEntry == [v |-> None, t |-> 0]

cache_get(doc, key) == IF key \in DOMAIN doc THEN doc[key] ELSE NoEntry

\* a cache_set that declines to store the text of a backend error
cache_set_skips_errors(doc, key, value, t) ==
    IF StartsWith(value, "Ollama error: ")
    THEN doc
    ELSE [k \in DOMAIN doc \cup {key} |->
             IF k = key THEN [v |-> value, t |-> t] ELSE doc[k]]

\* cache_set on the document it loaded
cache_set(doc, key, value, t) ==
    [k \in DOMAIN doc \cup {key} |-> IF k = key THEN [v |-> value, t |-> t] ELSE doc[k]]

\* the freshness test of ask_ai_stream, line 289
cache_fresh(entry, t) == entry # NoEntry /\ t - entry.t < CACHE_TTL

\* a replay that emits whole chunks only
replay_whole_chunks(text) ==
    [j \in 1..(Len(text) \div CHUNK) |-> SubSeq(text, (j - 1) * CHUNK + 1, j * CHUNK)]

\* the replay loop of ask_ai_stream, lines 294-295: the chunks, in order
replay_chunks(text) ==
    LET n == (Len(text) + CHUNK - 1) \div CHUNK
    IN  [j \in 1..n |-> SubSeq(text, (j - 1) * CHUNK + 1, Min(j * CHUNK, Len(text)))]

-----------------------------------------------------------------------------
(* State after start-up.                                                   *)

Threads == {"t1", "t2"}

NoUrgency == [level |-> 0, action |-> None, confidence |-> 0, reason |-> None]

NoReply == [text |-> None, requires_consent |-> FALSE]

NoOutcome ==
    [err |-> "none", status |-> 0, body |-> [kind |-> "garbled", response |-> None],
     lines |-> << >>]

CallKinds == {"chat", "remember", "log", "generate", "tick"}

Started ==
    /\ session = InitialSession
    /\ cache = << >>
    /\ now = 0
    /\ pc = [t \in Threads |-> "idle"]
    /\ session_data = [t \in Threads |-> InitialSession]
    /\ data = [t \in Threads |-> InitialSession]
    /\ additional_info = [t \in Threads |-> << >>]
    /\ urgency = [t \in Threads |-> NoUrgency]
    /\ urgency_level = [t \in Threads |-> 3]
    /\ urgency_info = [t \in Threads |-> None]
    /\ stream = [t \in Threads |-> TRUE]
    /\ full_prompt = [t \in Threads |-> None]
    /\ lines = [t \in Threads |-> << >>]
    /\ cache_data = [t \in Threads |-> << >>]
    /\ full_text = [t \in Threads |-> ""]
    /\ emitted = [t \in Threads |-> << >>]
    /\ retval = [t \in Threads |-> None]
    /\ reply = [t \in Threads |-> NoReply]
    /\ effects = [t \in Threads |-> {}]
    /\ calls = [k \in CallKinds |-> 0]
    /\ backendCalls = 0
    /\ answer = NoAnswer
    /\ recalled = None
    /\ completed = << >>
    /\ remembered = << >>
    /\ logged = << >>
    /\ loggedConsented = << >>

Init ==
    /\ Started
    /\ message = [t \in Threads |-> None]
    /\ backend = NoOutcome

threadVars == << pc, message, session_data, data, additional_info, urgency,
                 urgency_level, urgency_info, stream, full_prompt, lines,
                 cache_data, full_text, emitted, retval, reply, effects >>

-----------------------------------------------------------------------------
(* SpecMem: remember_question and log_interaction called one after another *)
(* (no interleaving), with consent granted at any point of the sequence.   *)
(* The i-th call of each function carries the i-th input of a fixed        *)
(* workload, so that every appended entry is told from its neighbours.     *)

MaxRemember == 7
MaxLog == 102

Questions == << "chest pain", "is my pulse normal", "what is angina",
                "how much salt", "can I run", "blood pressure 150",
                "John Smith has severe chest pain" >>

LogMessages == << "John Smith has severe chest pain", "what is angina",
                  "can I run", "I feel dizzy" >>

HistoryInput(i) == Questions[((i - 1) % Len(Questions)) + 1]

AuditMessage(i) == LogMessages[((i - 1) % Len(LogMessages)) + 1]

AuditLevel(i) == ((i - 1) % 3) + 1

\* the consent write of chat (line 376) for an affirmative message
MemGrantConsent ==
    /\ ~session.user_consent
    /\ session' = consent_doc(session, "yes")
    /\ UNCHANGED << cache, now, threadVars, calls, backend, backendCalls, answer, recalled, completed, remembered,
                    logged, loggedConsented >>

MemRemember ==
    /\ calls["remember"] < MaxRemember
    /\ LET q == HistoryInput(calls["remember"] + 1)
       IN  /\ session' = remember_question(session, q, now)
           /\ remembered' = IF session.user_consent
                            THEN Append(remembered, [q |-> q, t |-> now])
                            ELSE remembered
    /\ calls' = [calls EXCEPT !["remember"] = @ + 1]
    /\ UNCHANGED << cache, now, threadVars, backend, backendCalls, answer, recalled, completed, logged, loggedConsented >>

MemLog ==
    /\ calls["log"] < MaxLog
    /\ LET m == AuditMessage(calls["log"] + 1)
           l == AuditLevel(calls["log"] + 1)
       IN  /\ session' = log_interaction(session, m, l, now)
           /\ logged' = Append(logged, [timestamp |-> now, anon_query |-> Redact(m),
                                        response_level |-> l])
    /\ loggedConsented' =
           IF session.user_consent
           THEN Append(loggedConsented,
                       [timestamp |-> now, anon_query |-> Redact(AuditMessage(calls["log"] + 1)),
                        response_level |-> AuditLevel(calls["log"] + 1)])
           ELSE loggedConsented
    /\ calls' = [calls EXCEPT !["log"] = @ + 1]
    /\ UNCHANGED << cache, now, threadVars, backend, backendCalls, answer, recalled, completed, remembered >>

NextMem == MemGrantConsent \/ MemRemember \/ MemLog

SpecMem == Init /\ [][NextMem]_vars

-----------------------------------------------------------------------------
(* C4: the bounded windows of the history and of the audit log.            *)

\* the last n entries of seq, oldest dropped first
MostRecent(seq, n) ==
    LET k == IF Len(seq) < n THEN Len(seq) ELSE n
    IN  [i \in 1..k |-> seq[Len(seq) - k + i]]

-----------------------------------------------------------------------------
(* The backend, as the program sees it.                                    *)

\* a line of the streaming reply: a JSON object ("json"), a line that does
\* not parse ("raw"), or the connection failing while lines are read
\* ("error")
JsonLine(resp, outp, txt, done_) ==
    [kind |-> "json", response |-> resp, output |-> outp, text |-> txt,
     done |-> done_, raw |-> ""]

TextLine(chunk) == JsonLine(chunk, None, None, FALSE)

DoneLine == JsonLine(None, None, None, TRUE)

RawLine(r) ==
    [kind |-> "raw", response |-> None, output |-> None, text |-> None,
     done |-> FALSE, raw |-> r]

ErrorLine(e) ==
    [kind |-> "error", response |-> None, output |-> None, text |-> None,
     done |-> FALSE, raw |-> e]

\* an answer of the backend: the transport error raised by requests.post
\* ("none": no error), the HTTP status, the body of a non-streaming reply
\* and the lines of a streaming one
Outcome(err_, status_, body_, lines_) ==
    [err |-> err_, status |-> status_, body |-> body_, lines |-> lines_]

ObjectBody(resp) == [kind |-> "object", response |-> resp]

GarbledBody == [kind |-> "garbled", response |-> None]

ListBody == [kind |-> "list", response |-> None]

Replied(text) == Outcome("none", 200, ObjectBody(text), << >>)

Streamed(lines_) == Outcome("none", 200, GarbledBody, lines_)

TransportError(e) == Outcome(e, 0, GarbledBody, << >>)

HttpError(status_) == Outcome("none", status_, GarbledBody, << >>)

-----------------------------------------------------------------------------
(* chat: POST /chat, one thread per request (app.run(threaded=True)).      *)

MaxRequests == 3

Messages ==
    { "  ", "Yes", "I have had chest pain for 10 minutes",
      "what foods are good for my heart" }

\* what the backend may answer to chat's classification request
ChatUrgencyOutcomes ==
    { Replied("LEVEL 1: possible cardiac event. Confidence: HIGH"),
      Replied("Level 2: new palpitations. Confidence: MED"),
      TransportError("ReadTimeout") }

\* what the backend may answer to chat's generation request
ChatGenOutcomes ==
    { Streamed(<< TextLine("Please rest "), TextLine("and call a doctor."), DoneLine >>),
      Streamed(<< DoneLine >>),
      HttpError(500) }

IsBlank(msg) == strip(msg) = ""

EmptyReply == [text |-> "Please enter a message.\n\n" \o ETHICS_DISCLAIMER,
               requires_consent |-> FALSE]

ConsentNoted ==
    [text |-> "Consent noted. How can I help with your heart health today?\n\n"
                  \o ETHICS_DISCLAIMER,
     requires_consent |-> FALSE]

ConsentRequest ==
    [text |-> "Welcome! Before we start, do you consent to anonymous chat history for better context? (Yes/No) This helps me remember symptoms safely. Reply 'Yes' to proceed.\n\n"
                  \o ETHICS_DISCLAIMER,
     requires_consent |-> TRUE]

\* a thread takes a request: its locals are fresh
FreshLocals(t) ==
    /\ session_data' = [session_data EXCEPT ![t] = InitialSession]
    /\ data' = [data EXCEPT ![t] = InitialSession]
    /\ additional_info' = [additional_info EXCEPT ![t] = << >>]
    /\ urgency' = [urgency EXCEPT ![t] = NoUrgency]
    /\ urgency_level' = [urgency_level EXCEPT ![t] = 3]
    /\ urgency_info' = [urgency_info EXCEPT ![t] = None]
    /\ full_prompt' = [full_prompt EXCEPT ![t] = None]
    /\ lines' = [lines EXCEPT ![t] = << >>]
    /\ cache_data' = [cache_data EXCEPT ![t] = << >>]
    /\ full_text' = [full_text EXCEPT ![t] = ""]
    /\ emitted' = [emitted EXCEPT ![t] = << >>]
    /\ retval' = [retval EXCEPT ![t] = None]
    /\ effects' = [effects EXCEPT ![t] = {}]

\* lines 365-369: the request arrives; a blank message is answered at once
ChatBegin(t, msg) ==
    /\ pc[t] \in {"idle", "done"}
    /\ calls["chat"] < MaxRequests
    /\ calls' = [calls EXCEPT !["chat"] = @ + 1]
    /\ message' = [message EXCEPT ![t] = msg]
    /\ stream' = [stream EXCEPT ![t] = TRUE]
    /\ FreshLocals(t)
    /\ IF IsBlank(msg)
       THEN /\ reply' = [reply EXCEPT ![t] = EmptyReply]
            /\ pc' = [pc EXCEPT ![t] = "done"]
       ELSE /\ reply' = [reply EXCEPT ![t] = NoReply]
            /\ pc' = [pc EXCEPT ![t] = "chat_load"]
    /\ UNCHANGED << session, cache, now, backend, backendCalls, answer, recalled, completed,
                    remembered, logged, loggedConsented >>

\* lines 371-374: session_data = load_json(SESSION_MEM), and the consent test
ChatLoad(t) ==
    /\ pc[t] = "chat_load"
    /\ session_data' = [session_data EXCEPT ![t] = session]
    /\ pc' = [pc EXCEPT ![t] = IF ~session.user_consent THEN "consent_save" ELSE "enrich"]
    /\ UNCHANGED << session, cache, now, message, data, additional_info,
                    urgency, urgency_level, urgency_info, stream,
                    full_prompt, lines, cache_data, full_text, emitted,
                    retval, reply, effects, calls, backend, backendCalls, answer, recalled,
                    completed, remembered, logged, loggedConsented >>

\* lines 375-381: the consent branch, save_json and the reply
ConsentSave(t) ==
    /\ pc[t] = "consent_save"
    /\ session' = consent_doc(session_data[t], message[t])
    /\ reply' = [reply EXCEPT ![t] =
                    IF IsAffirmative(message[t]) THEN ConsentNoted ELSE ConsentRequest]
    /\ pc' = [pc EXCEPT ![t] = "done"]
    /\ UNCHANGED << cache, now, message, session_data, data, additional_info,
                    urgency, urgency_level, urgency_info, stream,
                    full_prompt, lines, cache_data, full_text, emitted,
                    retval, effects, calls, backend, backendCalls, answer, recalled, completed,
                    remembered, logged, loggedConsented >>

\* an enrichment step that sends every message on to the classifier
Enrich_AlwaysClassify(t) ==
    /\ pc[t] = "enrich"
    /\ additional_info' = [additional_info EXCEPT ![t] = collect_additional_info(message[t])]
    /\ effects' = [effects EXCEPT ![t] = @ \cup {"match", "gate"}]
    /\ pc' = [pc EXCEPT ![t] = "classify"]
    /\ UNCHANGED << session, cache, now, message, session_data, data,
                    urgency, urgency_level, urgency_info, stream,
                    full_prompt, lines, cache_data, full_text, emitted,
                    retval, reply, calls, backend, backendCalls, answer, recalled, completed,
                    remembered, logged, loggedConsented >>

\* lines 384-400: local knowledge, then the emergency gate
Enrich(t) ==
    /\ pc[t] = "enrich"
    /\ additional_info' = [additional_info EXCEPT ![t] = collect_additional_info(message[t])]
    /\ effects' = [effects EXCEPT ![t] = @ \cup {"match", "gate"}]
    /\ pc' = [pc EXCEPT ![t] =
                 IF is_potential_emergency(message[t]) THEN "classify" ELSE "remember_load"]
    /\ UNCHANGED << session, cache, now, message, session_data, data,
                    urgency, urgency_level, urgency_info, stream,
                    full_prompt, lines, cache_data, full_text, emitted,
                    retval, reply, calls, backend, backendCalls, answer, recalled, completed,
                    remembered, logged, loggedConsented >>

\* chat's urgency note, line 404
urgency_note(u) ==
    IF u.level \in {1, 2} THEN u.action \o "\nReason: " \o u.reason ELSE None

\* lines 401-404: the backend classifies; o is what the backend answers
Classify(t, o) ==
    /\ pc[t] = "classify"
    /\ urgency' = [urgency EXCEPT ![t] = classify_urgency(o)]
    /\ urgency_level' = [urgency_level EXCEPT ![t] = classify_urgency(o).level]
    /\ urgency_info' = [urgency_info EXCEPT ![t] = urgency_note(classify_urgency(o))]
    /\ effects' = [effects EXCEPT ![t] = @ \cup {"classify"}]
    /\ pc' = [pc EXCEPT ![t] = "remember_load"]
    /\ UNCHANGED << session, cache, now, message, session_data, data,
                    additional_info, stream, full_prompt, lines, cache_data,
                    full_text, emitted, retval, reply, calls, backend,
                    backendCalls, answer, recalled, completed, remembered, logged,
                    loggedConsented >>

\* remember_question, lines 158-160: load and the consent test
RememberLoad(t) ==
    /\ pc[t] = "remember_load"
    /\ data' = [data EXCEPT ![t] = session]
    /\ pc' = [pc EXCEPT ![t] = IF ~session.user_consent THEN "log_load" ELSE "remember_save"]
    /\ UNCHANGED << session, cache, now, message, session_data,
                    additional_info, urgency, urgency_level, urgency_info,
                    stream, full_prompt, lines, cache_data, full_text,
                    emitted, retval, reply, effects, calls, backend,
                    backendCalls, answer, recalled, completed, remembered, logged,
                    loggedConsented >>

\* remember_question, lines 161-164: append, truncate, save
RememberSave(t) ==
    /\ pc[t] = "remember_save"
    /\ session' = remember_question_save(data[t], message[t], now)
    /\ effects' = [effects EXCEPT ![t] = @ \cup {"history"}]
    /\ pc' = [pc EXCEPT ![t] = "log_load"]
    /\ UNCHANGED << cache, now, message, session_data, data, additional_info,
                    urgency, urgency_level, urgency_info, stream,
                    full_prompt, lines, cache_data, full_text, emitted,
                    retval, reply, calls, backend, backendCalls, answer, recalled, completed,
                    remembered, logged, loggedConsented >>

\* log_interaction, line 193
LogLoad(t) ==
    /\ pc[t] = "log_load"
    /\ data' = [data EXCEPT ![t] = session]
    /\ pc' = [pc EXCEPT ![t] = "log_save"]
    /\ UNCHANGED << session, cache, now, message, session_data,
                    additional_info, urgency, urgency_level, urgency_info,
                    stream, full_prompt, lines, cache_data, full_text,
                    emitted, retval, reply, effects, calls, backend,
                    backendCalls, answer, recalled, completed, remembered, logged,
                    loggedConsented >>

\* a log_interaction that appends to the stored document in one step, as it
\* would under a lock held from load to save
LogSave_Atomic(t) ==
    /\ pc[t] = "log_save"
    /\ session' = log_interaction(session, message[t], urgency_level[t], now)
    /\ effects' = [effects EXCEPT ![t] = @ \cup {"audit"}]
    /\ pc' = [pc EXCEPT ![t] = "gen_prompt"]
    /\ UNCHANGED << cache, now, message, session_data, data, additional_info,
                    urgency, urgency_level, urgency_info, stream,
                    full_prompt, lines, cache_data, full_text, emitted,
                    retval, reply, calls, backend, backendCalls, answer, recalled, completed,
                    remembered, logged, loggedConsented >>

\* log_interaction, lines 194-198; chat then returns the streaming Response,
\* whose generator the server runs
LogSave(t) ==
    /\ pc[t] = "log_save"
    /\ session' = log_interaction(data[t], message[t], urgency_level[t], now)
    /\ effects' = [effects EXCEPT ![t] = @ \cup {"audit"}]
    /\ pc' = [pc EXCEPT ![t] = "gen_prompt"]
    /\ UNCHANGED << cache, now, message, session_data, data, additional_info,
                    urgency, urgency_level, urgency_info, stream,
                    full_prompt, lines, cache_data, full_text, emitted,
                    retval, reply, calls, backend, backendCalls, answer, recalled, completed,
                    remembered, logged, loggedConsented >>

-----------------------------------------------------------------------------
(* ask_ai_stream: a generator function (its body holds yield statements),  *)
(* so a call only creates the generator; the body runs when the caller     *)
(* iterates.  emitted[t] is what the iteration has yielded so far,         *)
(* retval[t] the value of a return statement (StopIteration.value), which  *)
(* an iterating caller does not receive as an item.                         *)

\* an error message without the disclaimer
connect_error_bare(e) == "Error connecting to Ollama: " \o e

\* lines 343-344: the message for an exception raised in the try block
connect_error(e) == "Error connecting to Ollama: " \o e \o "\n\n" \o ETHICS_DISCLAIMER

http_error(status_) ==
    "Ollama error: HTTP " \o ToString(status_) \o "\n\n" \o ETHICS_DISCLAIMER

Item(chunk) == [reply |-> chunk]

ItemsText(items) == Concat([i \in 1..Len(items) |-> items[i].reply])

\* data.get('response') or data.get('output') or data.get('text') or ""
Truthy(v) == v # None /\ v # ""

line_chunk(l) ==
    IF Truthy(l.response) THEN l.response
    ELSE IF Truthy(l.output) THEN l.output
    ELSE IF Truthy(l.text) THEN l.text
    ELSE ""

\* the record of one finished run of the generator
Finished(t, source_, contacted_, stored_, items_, value_) ==
    [prompt |-> full_prompt[t], stream |-> stream[t], at |-> now,
     source |-> source_, contacted |-> contacted_, stored |-> stored_,
     items |-> items_, value |-> value_]

\* line 285: the prompt, built from the stored history
GenPrompt(t) ==
    /\ pc[t] = "gen_prompt"
    /\ full_prompt' = [full_prompt EXCEPT ![t] =
                          build_prompt(recall_user_context(session), message[t],
                                       additional_info[t], urgency_info[t])]
    /\ pc' = [pc EXCEPT ![t] = "gen_cache_get"]
    /\ UNCHANGED << session, cache, now, message, session_data, data,
                    additional_info, urgency, urgency_level, urgency_info,
                    stream, lines, cache_data, full_text, emitted, retval,
                    reply, effects, calls, backend, backendCalls, answer, recalled, completed,
                    remembered, logged, loggedConsented >>

\* lines 287-296: the cache lookup and, on a fresh entry, the replay
GenCacheGet(t) ==
    LET cached == cache_get(cache, cache_key_of(full_prompt[t]))
        hit == cache_fresh(cached, now)
        items == [j \in 1..Len(replay_chunks(cached.v)) |-> Item(replay_chunks(cached.v)[j])]
    IN  /\ pc[t] = "gen_cache_get"
        /\ effects' = [effects EXCEPT ![t] = @ \cup {"cache_read"}]
        /\ IF hit
           THEN /\ full_text' = [full_text EXCEPT ![t] = cached.v]
                /\ emitted' = [emitted EXCEPT ![t] = IF stream[t] THEN items ELSE << >>]
                /\ retval' = [retval EXCEPT ![t] = IF stream[t] THEN None ELSE cached.v]
                /\ completed' = Append(completed,
                       Finished(t, "cache", FALSE, FALSE,
                                IF stream[t] THEN items ELSE << >>,
                                IF stream[t] THEN None ELSE cached.v))
                /\ pc' = [pc EXCEPT ![t] = "done"]
           ELSE /\ pc' = [pc EXCEPT ![t] = "gen_post"]
                /\ UNCHANGED << full_text, emitted, retval, completed >>
        /\ UNCHANGED << session, cache, now, message, session_data, data,
                    additional_info, urgency, urgency_level, urgency_info,
                    stream, full_prompt, lines, cache_data, reply, calls,
                    backend, backendCalls, answer, recalled, remembered, logged,
                    loggedConsented >>

\* lines 306-314 and 336-348: requests.post; o is what the backend answers
GenPost(t, o) ==
    LET failure == IF o.err # "none" THEN connect_error(o.err)
                   ELSE IF ~ResponseOk(o.status) THEN http_error(o.status)
                   ELSE IF o.body.kind = "garbled" THEN connect_error("Expecting value")
                   ELSE IF o.body.kind = "list"
                        THEN connect_error("'list' object has no attribute 'get'")
                   ELSE None
        failed == \/ o.err # "none"
                  \/ ~ResponseOk(o.status)
                  \/ ~stream[t] /\ o.body.kind # "object"
        stores == ~stream[t] /\ o.err = "none"
                      /\ (~ResponseOk(o.status) \/ o.body.kind = "object")
        text == IF ~ResponseOk(o.status) THEN http_error(o.status)
                ELSE (IF o.body.response = None THEN "" ELSE o.body.response)
                         \o "\n\n" \o ETHICS_DISCLAIMER
    IN  /\ pc[t] = "gen_post"
        /\ backendCalls' = backendCalls + 1
        /\ effects' = [effects EXCEPT ![t] =
                          @ \cup {"backend"}
                            \cup (IF failed THEN {"failure"} ELSE {})]
        /\ IF stores
           THEN \* lines 311-312 and 338-340: cache_set comes before the return
                /\ full_text' = [full_text EXCEPT ![t] = text]
                /\ pc' = [pc EXCEPT ![t] = "gen_cache_load"]
                /\ UNCHANGED << lines, emitted, retval, completed >>
           ELSE IF stream[t] /\ o.err = "none" /\ ResponseOk(o.status)
           THEN \* lines 316-318: the streaming loop starts
                /\ full_text' = [full_text EXCEPT ![t] = ""]
                /\ lines' = [lines EXCEPT ![t] = o.lines]
                /\ pc' = [pc EXCEPT ![t] = "gen_line"]
                /\ UNCHANGED << emitted, retval, completed >>
           ELSE \* a failure: yielded when streaming, returned otherwise
                /\ emitted' = [emitted EXCEPT ![t] =
                                  IF stream[t] THEN << Item(failure) >> ELSE << >>]
                /\ retval' = [retval EXCEPT ![t] = IF stream[t] THEN None ELSE failure]
                /\ completed' = Append(completed,
                       Finished(t, "failure", TRUE, FALSE,
                                IF stream[t] THEN << Item(failure) >> ELSE << >>,
                                IF stream[t] THEN None ELSE failure))
                /\ pc' = [pc EXCEPT ![t] = "done"]
                /\ UNCHANGED << full_text, lines >>
        /\ UNCHANGED << session, cache, now, message, session_data, data,
                    additional_info, urgency, urgency_level, urgency_info,
                    stream, full_prompt, cache_data, reply, calls, backend, answer, recalled,
                    remembered, logged, loggedConsented >>

\* a reading of lines 328-332 in which an unparseable line is discarded
raw_text_discard(l) == ""

\* lines 328-332: a line that is not JSON is taken as literal text, unless
\* it is blank
raw_text(l) == IF strip(l.raw) # "" THEN l.raw ELSE ""

\* lines 318-332: one line of the streaming reply
GenLine(t) ==
    LET l == Head(lines[t])
        chunk == IF l.kind = "json" THEN line_chunk(l) ELSE raw_text(l)
    IN  /\ pc[t] = "gen_line"
        /\ lines[t] # << >>
        /\ IF l.kind = "error"
           THEN \* iter_lines raises: lines 343-346
                /\ emitted' = [emitted EXCEPT ![t] = Append(@, Item(connect_error(l.raw)))]
                /\ completed' = Append(completed,
                       Finished(t, "failure", TRUE, FALSE,
                                Append(emitted[t], Item(connect_error(l.raw))), None))
                /\ lines' = [lines EXCEPT ![t] = << >>]
                /\ pc' = [pc EXCEPT ![t] = "done"]
                /\ UNCHANGED full_text
           ELSE IF l.kind = "json" /\ l.done
           THEN \* break
                /\ lines' = [lines EXCEPT ![t] = << >>]
                /\ UNCHANGED << emitted, completed, full_text, pc >>
           ELSE /\ lines' = [lines EXCEPT ![t] = Tail(@)]
                /\ full_text' = [full_text EXCEPT ![t] = @ \o chunk]
                /\ emitted' = [emitted EXCEPT ![t] =
                                  IF chunk # "" THEN Append(@, Item(chunk)) ELSE @]
                /\ UNCHANGED << completed, pc >>
        /\ UNCHANGED << session, cache, now, message, session_data, data,
                    additional_info, urgency, urgency_level, urgency_info,
                    stream, full_prompt, cache_data, retval, reply, effects,
                    calls, backend, backendCalls, answer, recalled, remembered, logged,
                    loggedConsented >>

\* lines 333-335: after the loop; an empty text is not stored
GenStreamEnd(t) ==
    /\ pc[t] = "gen_line"
    /\ lines[t] = << >>
    /\ IF full_text[t] # ""
       THEN /\ pc' = [pc EXCEPT ![t] = "gen_cache_load"]
            /\ UNCHANGED completed
       ELSE /\ pc' = [pc EXCEPT ![t] = "done"]
            /\ completed' = Append(completed,
                   Finished(t, "backend", TRUE, FALSE, emitted[t], None))
    /\ UNCHANGED << session, cache, now, message, session_data, data,
                    additional_info, urgency, urgency_level, urgency_info,
                    stream, full_prompt, lines, cache_data, full_text,
                    emitted, retval, reply, effects, calls, backend,
                    backendCalls, answer, recalled, remembered, logged, loggedConsented >>

\* cache_set, line 185: the whole cache document is read
GenCacheLoad(t) ==
    /\ pc[t] = "gen_cache_load"
    /\ cache_data' = [cache_data EXCEPT ![t] = cache]
    /\ pc' = [pc EXCEPT ![t] = "gen_cache_save"]
    /\ UNCHANGED << session, cache, now, message, session_data, data,
                    additional_info, urgency, urgency_level, urgency_info,
                    stream, full_prompt, lines, full_text, emitted, retval,
                    reply, effects, calls, backend, backendCalls, answer, recalled, completed,
                    remembered, logged, loggedConsented >>

\* cache_set, lines 186-187: the entry is put in and the document written
\* back; the generator then returns
GenCacheSave(t) ==
    /\ pc[t] = "gen_cache_save"
    /\ cache' = cache_set(cache_data[t], cache_key_of(full_prompt[t]), full_text[t], now)
    /\ effects' = [effects EXCEPT ![t] = @ \cup {"cache_write"}]
    /\ retval' = [retval EXCEPT ![t] = IF stream[t] THEN None ELSE full_text[t]]
    /\ completed' = Append(completed,
           Finished(t, IF "failure" \in effects[t] THEN "failure" ELSE "backend",
                    TRUE, TRUE, emitted[t],
                    IF stream[t] THEN None ELSE full_text[t]))
    /\ pc' = [pc EXCEPT ![t] = "done"]
    /\ UNCHANGED << session, now, message, session_data, data,
                    additional_info, urgency, urgency_level, urgency_info,
                    stream, full_prompt, lines, cache_data, full_text,
                    emitted, reply, calls, backend, backendCalls, answer, recalled, remembered,
                    logged, loggedConsented >>

-----------------------------------------------------------------------------
(* The server: chat requests handled by concurrent threads.                *)

Next ==
    \/ \E t \in Threads, msg \in Messages : ChatBegin(t, msg)
    \/ \E t \in Threads : ChatLoad(t)
    \/ \E t \in Threads : ConsentSave(t)
    \/ \E t \in Threads : Enrich(t)
    \/ \E t \in Threads, o \in ChatUrgencyOutcomes : Classify(t, o)
    \/ \E t \in Threads : RememberLoad(t)
    \/ \E t \in Threads : RememberSave(t)
    \/ \E t \in Threads : LogLoad(t)
    \/ \E t \in Threads : LogSave(t)
    \/ \E t \in Threads : GenPrompt(t)
    \/ \E t \in Threads : GenCacheGet(t)
    \/ \E t \in Threads, o \in ChatGenOutcomes : GenPost(t, o)
    \/ \E t \in Threads : GenLine(t)
    \/ \E t \in Threads : GenStreamEnd(t)
    \/ \E t \in Threads : GenCacheLoad(t)
    \/ \E t \in Threads : GenCacheSave(t)

Spec == Init /\ [][Next]_vars

-----------------------------------------------------------------------------
(* Consent: claims C1, C2, C3.                                             *)

\* C1, as stated: remember_question appends a question to the history only
\* if the consent flag stored in the session document is true at the moment
\* the history is written, and with the flag false it leaves the document
\* as it is
C1_AsStated ==
    [][\A t \in Threads :
          /\ RememberSave(t) => session.user_consent
          /\ (RememberLoad(t) /\ ~session.user_consent) => session' = session]_vars

\* C2, as stated: a non-blank message handled while the stored consent flag
\* is false causes no matching, no gate, no classification, no backend call,
\* no cache access, no history append and no audit append, and changes
\* nothing of the stored state but the consent flag
C2_AsStated ==
    [][\A t \in Threads :
          ConsentSave(t) =>
              /\ effects'[t] = {}
              /\ cache' = cache
              /\ backendCalls' = backendCalls
              /\ session'.previous_questions = session.previous_questions
              /\ session'.audit_logs = session.audit_logs]_vars

\* C3: a non-blank message arriving while consent is false sets the consent
\* flag to true and is acknowledged if its lowercase form is one of yes, y,
\* consent, consent granted; any other message sets the flag to false and
\* gets the consent request, marked requires_consent
C3_ConsentBranch ==
    [][\A t \in Threads :
          ConsentSave(t) =>
              IF lower(message[t]) \in {"yes", "y", "consent", "consent granted"}
              THEN /\ session'.user_consent
                   /\ StartsWith(reply'[t].text, "Consent noted.")
                   /\ ~reply'[t].requires_consent
              ELSE /\ ~session'.user_consent
                   /\ StartsWith(reply'[t].text, "Welcome! Before we start, do you consent")
                   /\ reply'[t].requires_consent]_vars

\* "Yes", which is not in lowercase, has been taken as the grant
C3_Witness ==
    \E t \in Threads :
        /\ pc[t] = "done"
        /\ message[t] = "Yes"
        /\ reply[t] = ConsentNoted
        /\ session.user_consent

-----------------------------------------------------------------------------
(* Urgency within a chat request: claim C10.                               *)

HasUrgencyBlock(prompt) == Contains(prompt, "\nURGENCY ALERT: ")

\* C10: in a chat request the backend is asked to classify only if
\* is_potential_emergency was true of the message; a request whose gate was
\* false is audit-logged with level 3 and its prompt has no urgency block;
\* and a prompt has the urgency block exactly if the classification gave
\* level 1 or 2
C10_GateThenClassify ==
    [][\A t \in Threads :
          /\ ("classify" \in effects'[t] /\ "classify" \notin effects[t]) =>
                 is_potential_emergency(message[t])
          /\ (LogSave(t) /\ ~is_potential_emergency(message[t])) =>
                 session'.audit_logs[Len(session'.audit_logs)].response_level = 3
          /\ GenPrompt(t) =>
                 /\ HasUrgencyBlock(full_prompt'[t]) <=> urgency[t].level \in {1, 2}
                 /\ ~is_potential_emergency(message[t]) => ~HasUrgencyBlock(full_prompt'[t])]_vars

\* one request was classified level 1 and prompted with the urgency block
\* while another, whose gate was false, was prompted without it
C10_Witness ==
    \E t, u \in Threads :
        /\ urgency[t].level = 1
        /\ full_prompt[t] # None /\ HasUrgencyBlock(full_prompt[t])
        /\ message[u] = "what foods are good for my heart"
        /\ "audit" \in effects[u] /\ "classify" \notin effects[u]
        /\ full_prompt[u] # None /\ ~HasUrgencyBlock(full_prompt[u])

-----------------------------------------------------------------------------
(* The disclaimer on replies: claim C6.                                    *)

\* C6, as stated: every reply chat gives (to a blank message, the consent
\* request, the consent acknowledgment, a backend error, a freshly streamed
\* answer, an answer replayed from the cache) ends with ETHICS_DISCLAIMER,
\* put there by the program whatever the backend sent
C6_AsStated ==
    /\ \A t \in Threads : reply[t] # NoReply => EndsWith(reply[t].text, ETHICS_DISCLAIMER)
    /\ \A i \in 1..Len(completed) :
           completed[i].stream => EndsWith(ItemsText(completed[i].items), ETHICS_DISCLAIMER)

-----------------------------------------------------------------------------
(* classify_urgency on its own: one call, for each answer the backend can  *)
(* give to the classification request.                                      *)

UrgencyMessages == Messages \ {"  "}

UrgencyErrors == {"none", "ConnectionError", "ReadTimeout"}

UrgencyStatuses == {200, 404, 500}

UrgencyBodies ==
    { GarbledBody, ListBody, ObjectBody(None), ObjectBody("  "),
      ObjectBody("LEVEL 1: possible cardiac event. Confidence: HIGH"),
      ObjectBody("Level 1: persistent chest pain. Confidence: HIGH"),
      ObjectBody(" level 2: new palpitations. Confidence: MED "),
      ObjectBody("LEVEL 2 rather than LEVEL 1. Confidence: LOW"),
      ObjectBody("LEVEL 3: general advice. Confidence: HIGH"),
      ObjectBody("I cannot classify this.") }

UrgencyOutcomes ==
    { Outcome(e, s, b, << >>) :
          e \in UrgencyErrors, s \in UrgencyStatuses, b \in UrgencyBodies }

InitUrgency ==
    /\ Started
    /\ message \in { [t \in Threads |-> IF t = "t1" THEN m ELSE None] :
                         m \in UrgencyMessages }
    /\ backend \in UrgencyOutcomes

\* urgency = classify_urgency(message), the backend answering as `backend`
UrgencyCall ==
    /\ pc["t1"] = "idle"
    /\ urgency' = [urgency EXCEPT !["t1"] = classify_urgency(backend)]
    /\ pc' = [pc EXCEPT !["t1"] = "classified"]
    /\ UNCHANGED << session, cache, now, message, session_data, data,
                    additional_info, urgency_level, urgency_info, stream,
                    full_prompt, lines, cache_data, full_text, emitted,
                    retval, reply, effects, calls, backend, backendCalls, answer, recalled,
                    completed, remembered, logged, loggedConsented >>

NextUrgency == UrgencyCall

SpecUrgency == InitUrgency /\ [][NextUrgency]_vars

\* what the classification request got back, read independently of the
\* classifier: a reply that arrived, with a success status and a JSON object
Successful(o) == o.err = "none" /\ o.status \in 200..399 /\ o.body.kind = "object"

ReplyText(o) == IF o.body.response = None THEN "" ELSE o.body.response

\* C9: classify_urgency always returns one of three results: level 1 with
\* confidence 1.0 and a non-empty reason for a successful reply containing
\* LEVEL 1 in any letter case; otherwise level 2 with confidence 0.8 for a
\* successful reply containing LEVEL 2; and level 3 with confidence 0.5 and
\* an empty reason for every other outcome, failures included
C9_ThreeResults ==
    pc["t1"] = "classified" =>
        LET u == urgency["t1"]
            said(level) == Successful(backend)
                               /\ Contains(lower(ReplyText(backend)), level)
        IN  IF said("level 1")
            THEN u.level = 1 /\ u.confidence = 100 /\ u.reason # ""
            ELSE IF said("level 2")
            THEN u.level = 2 /\ u.confidence = 80
            ELSE u.level = 3 /\ u.confidence = 50 /\ u.reason = ""

\* a reply that names both levels, in mixed case, was classified level 1
C9_Witness ==
    /\ pc["t1"] = "classified"
    /\ backend = Outcome("none", 200,
                         ObjectBody("LEVEL 2 rather than LEVEL 1. Confidence: LOW"), << >>)
    /\ urgency["t1"].level = 1

-----------------------------------------------------------------------------
(* ask_ai_stream called directly, one call after the other, in either      *)
(* mode, while the clock advances between calls.                            *)

MaxGenCalls == 3

MaxTicks == 2

GenMessages == { "what foods are good for my heart", "is walking good for me" }

\* seconds the clock may advance by between two calls
Ticks == {1, 3599, 3600}

\* n copies of s, one after the other
RECURSIVE Repeat(_, _)
Repeat(s, n) ==
    IF n = 0 THEN ""
    ELSE IF n = 1 THEN s
    ELSE Repeat(s, n \div 2) \o Repeat(s, n - n \div 2)

\* what the backend may answer to a generation request: the body is what a
\* non-streaming request reads, the lines what a streaming one reads
GenOutcomes ==
    { \* a short answer; one line is not JSON, one uses the key "text"
      Outcome("none", 200, ObjectBody("Rest and see a doctor."),
              << TextLine("Rest "), RawLine("not json"), RawLine("  "),
                 JsonLine(None, None, "and see a doctor.", FALSE), DoneLine >>),
      \* an answer with no text at all
      Outcome("none", 200, ObjectBody(None), << DoneLine >>),
      \* a long answer, one line under the key "output", and a line after done
      Outcome("none", 200, GarbledBody,
              << TextLine(Repeat("Eat well. ", 20)),
                 JsonLine("", Repeat("Walk daily", 20), None, FALSE),
                 TextLine("!"), DoneLine, TextLine("after done") >>),
      \* the connection breaks while the answer is read
      Outcome("none", 200, ListBody,
              << TextLine("Rest "), ErrorLine("ChunkedEncodingError") >>),
      HttpError(500),
      TransportError("ConnectionError") }

\* gen = ask_ai_stream(message, stream=st): the generator is created with the
\* defaults additional_info=None, urgency_info=None; nothing of the body has
\* run yet
GenCall(msg, st) ==
    /\ pc["t1"] \in {"idle", "done"}
    /\ calls["generate"] < MaxGenCalls
    /\ calls' = [calls EXCEPT !["generate"] = @ + 1]
    /\ message' = [message EXCEPT !["t1"] = msg]
    /\ stream' = [stream EXCEPT !["t1"] = st]
    /\ FreshLocals("t1")
    /\ pc' = [pc EXCEPT !["t1"] = "gen_prompt"]
    /\ UNCHANGED << session, cache, now, reply, backend, backendCalls, answer, recalled,
                    completed, remembered, logged, loggedConsented >>

\* time.time() moves on between one call and the next
Tick(d) ==
    /\ pc["t1"] = "done"
    /\ calls["generate"] < MaxGenCalls
    /\ calls["tick"] < MaxTicks
    /\ calls' = [calls EXCEPT !["tick"] = @ + 1]
    /\ now' = now + d
    /\ UNCHANGED << session, cache, pc, message, session_data, data,
                    additional_info, urgency, urgency_level, urgency_info,
                    stream, full_prompt, lines, cache_data, full_text,
                    emitted, retval, reply, effects, backend, backendCalls, answer, recalled,
                    completed, remembered, logged, loggedConsented >>

NextGen ==
    \/ \E msg \in GenMessages, st \in BOOLEAN : GenCall(msg, st)
    \/ \E d \in Ticks : Tick(d)
    \/ GenPrompt("t1")
    \/ GenCacheGet("t1")
    \/ \E o \in GenOutcomes : GenPost("t1", o)
    \/ GenLine("t1")
    \/ GenStreamEnd("t1")
    \/ GenCacheLoad("t1")
    \/ GenCacheSave("t1")

SpecGen == Init /\ [][NextGen]_vars

-----------------------------------------------------------------------------
(* The response cache seen through ask_ai_stream: claims C5, C7, C8.       *)

\* the text a finished run handed over: the chunks its caller iterated when
\* streaming, the value of its return statement otherwise
HandedOver(c) == IF c.stream THEN ItemsText(c.items) ELSE c.value

\* run j is the first run after run i that built the same prompt
NextWithSamePrompt(i, j) ==
    /\ i < j
    /\ completed[i].prompt = completed[j].prompt
    /\ \A k \in (i + 1)..(j - 1) : completed[k].prompt # completed[i].prompt

\* C5, as stated: of two calls that built the same prompt, the first having
\* completed without failure at time t0, the second, at time t, returns the
\* stored text and makes no backend request if t - t0 < 3600, and makes a
\* fresh backend request if t - t0 >= 3600; and the lookup never deletes an
\* entry
C5_AsStated ==
    /\ [](\A i, j \in 1..Len(completed) :
             (NextWithSamePrompt(i, j) /\ completed[i].source # "failure") =>
                 IF completed[j].at - completed[i].at < 3600
                 THEN /\ ~completed[j].contacted
                      /\ HandedOver(completed[j]) = HandedOver(completed[i])
                 ELSE completed[j].contacted)
    /\ [][GenCacheGet("t1") => cache' = cache]_vars

\* C7: on a cache hit in streaming mode the chunks emitted are, in order,
\* pieces of the cached text: none is empty, each but the last has exactly
\* 200 characters, the last at most 200, and together they are the cached
\* text
C7_ChunkedReplay ==
    (/\ pc["t1"] = "done"
     /\ completed # << >>
     /\ completed[Len(completed)].source = "cache"
     /\ stream["t1"]) =>
        LET text == cache_get(cache, cache_key_of(full_prompt["t1"])).v
            items == emitted["t1"]
            n == Len(items)
        IN  /\ \A k \in 1..n :
                   /\ Len(items[k].reply) > 0
                   /\ Len(items[k].reply) <= 200
                   /\ k < n => Len(items[k].reply) = 200
            /\ ItemsText(items) = text

\* a cached text of 401 characters was replayed as chunks of 200, 200 and 1
C7_Witness ==
    /\ pc["t1"] = "done"
    /\ completed # << >>
    /\ completed[Len(completed)].source = "cache"
    /\ stream["t1"]
    /\ Len(emitted["t1"]) = 3
    /\ Len(emitted["t1"][3].reply) = 1

\* C8, as stated: with stream = False the caller of ask_ai_stream is handed
\* one complete text: on a miss answered by the backend, the backend's
\* response followed by the disclaimer, which is also what the cache then
\* holds for the prompt; on a hit, the cached text
C8_AsStated ==
    (/\ pc["t1"] = "done"
     /\ completed # << >>
     /\ ~stream["t1"]
     /\ completed[Len(completed)].source # "failure") =>
        LET c == completed[Len(completed)]
            text == cache_get(cache, cache_key_of(full_prompt["t1"])).v
        IN  /\ EndsWith(text, "\n\n" \o ETHICS_DISCLAIMER) \/ c.source = "cache"
            /\ ItemsText(c.items) = text

-----------------------------------------------------------------------------
(* check_local_db on its own: one call for each question of a set that     *)
(* reaches every branch and both sides of the FAQ threshold.               *)

LocalLeads == { "", "Please tell me ", "NOW: " }

LocalCores ==
    { "what is angina", "what is an", "what foods are good for the heart",
      "is my heart ok with more salt", "a clinic or Hospital", "hello" }

LocalTails == { "", " and what helps it", " and what helps it?" }

LocalQuestions ==
    { l \o c \o t : l \in LocalLeads, c \in LocalCores, t \in LocalTails }

InitLocal ==
    /\ Started
    /\ message \in { [t \in Threads |-> IF t = "t1" THEN q ELSE None] :
                         q \in LocalQuestions }
    /\ backend = NoOutcome

\* local = check_local_db(message)
LocalCall ==
    /\ pc["t1"] = "idle"
    /\ answer' = check_local_db(message["t1"])
    /\ pc' = [pc EXCEPT !["t1"] = "answered"]
    /\ UNCHANGED << session, cache, now, message, session_data, data,
                    additional_info, urgency, urgency_level, urgency_info,
                    stream, full_prompt, lines, cache_data, full_text,
                    emitted, retval, reply, effects, calls, backend,
                    backendCalls, recalled, completed, remembered, logged,
                    loggedConsented >>

NextLocal == LocalCall

SpecLocal == InitLocal /\ [][NextLocal]_vars

\* the similarity of every FAQ key to the lowercased question
FaqScores(q) == [i \in 1..Len(CARDIO_FAQ) |-> fuzz_ratio(CARDIO_FAQ[i].k, lower(q))]

\* the tips whose key the lowercased question contains, in store order
TipsFor(q) ==
    { i \in 1..Len(CARDIO_TIPS) : Contains(lower(q), CARDIO_TIPS[i].k) }

\* C11: check_local_db answers in strict priority order: the first FAQ entry
\* with the highest similarity if that similarity is above 60 (61 gives
\* confidence 0.61, 60 gives no FAQ answer); otherwise the first tip whose key
\* the lowercased question contains, with confidence 0.8; otherwise the
\* clinic directory, with confidence 0.7, if the question names a clinic or a
\* hospital; otherwise nothing
C11_PriorityOrder ==
    pc["t1"] = "answered" =>
        LET q == message["t1"]
            scores == FaqScores(q)
            top == MaxOf({ scores[i] : i \in 1..Len(CARDIO_FAQ) })
            first == CHOOSE i \in 1..Len(CARDIO_FAQ) :
                         scores[i] = top /\ \A j \in 1..(i - 1) : scores[j] < top
        IN  IF top >= 61
            THEN answer = [answer |-> CARDIO_FAQ[first].v, confidence |-> top]
            ELSE IF TipsFor(q) # {}
            THEN answer = [answer |-> CARDIO_TIPS[CHOOSE i \in TipsFor(q) :
                                                     \A j \in TipsFor(q) : i <= j].v,
                           confidence |-> 80]
            ELSE IF Contains(lower(q), "clinic") \/ Contains(lower(q), "hospital")
            THEN /\ answer.confidence = 70
                 /\ StartsWith(answer.answer, "Here are some local cardiology clinics: ")
            ELSE answer = NoAnswer

\* the best FAQ score of the question is exactly 61 and the FAQ answered
\* with confidence 0.61
C11_Witness ==
    /\ pc["t1"] = "answered"
    /\ message["t1"] = "what is angina and what helps it"
    /\ FaqScores(message["t1"])[2] = 61
    /\ answer = [answer |-> CARDIO_FAQ[2].v, confidence |-> 61]

-----------------------------------------------------------------------------
(* recall_user_context on its own, between remember_question calls.        *)

\* context = recall_user_context()
MemRecall ==
    /\ recalled' = recall_user_context(session)
    /\ UNCHANGED << session, cache, now, pc, message, session_data, data,
                    additional_info, urgency, urgency_level, urgency_info,
                    stream, full_prompt, lines, cache_data, full_text,
                    emitted, retval, reply, effects, calls, backend,
                    backendCalls, answer, completed, remembered, logged,
                    loggedConsented >>

NextRecall == MemGrantConsent \/ MemRemember \/ MemRecall

SpecRecall == Init /\ [][NextRecall]_vars

\* C12: recall_user_context returns the empty text when the stored consent
\* flag is false or the history is empty, and otherwise the text naming
\* exactly the last entry of the history; so remember(q) followed by a
\* recall gives the empty text without consent and a text containing q with
\* consent
C12_RecallLast ==
    [][MemRecall =>
          /\ (~session.user_consent \/ session.previous_questions = << >>) =>
                 recalled' = ""
          /\ (session.user_consent /\ session.previous_questions # << >>) =>
                 recalled' = "Earlier you asked: '"
                                 \o session.previous_questions[
                                        Len(session.previous_questions)].q \o "'"
          /\ remembered = << >> => recalled' = ""
          /\ remembered # << >> =>
                 Contains(recalled', remembered[Len(remembered)].q)]_vars

\* with consent, two questions were remembered and the recall names the
\* second
C12_Witness ==
    /\ session.user_consent
    /\ Len(remembered) = 2
    /\ recalled = "Earlier you asked: '" \o HistoryInput(calls["remember"]) \o "'"

-----------------------------------------------------------------------------
(* The recalled context in the prompt of a chat request: claim C13.        *)

\* the context line of a prompt that recalls question q
RecallsQuestion(prompt, q) == Contains(prompt, "\n\nEarlier you asked: '" \o q \o "'\nUser: ")

\* C13, as stated: with consent granted, the context line of the prompt
\* built for a request names the most recent question retained from an
\* earlier request, not the message of the request itself, and is empty when
\* no earlier question was retained
C13_AsStated ==
    [][\A t \in Threads :
          (GenPrompt(t) /\ "history" \in effects[t]) =>
              IF Len(session.previous_questions) >= 2
              THEN RecallsQuestion(full_prompt'[t],
                       session.previous_questions[Len(session.previous_questions) - 1].q)
              ELSE Contains(full_prompt'[t], "\n\n\nUser: ")]_vars

-----------------------------------------------------------------------------
(* The streaming loop: claims C14, C15, C16.                               *)

\* the text increment a backend line carries, read independently of the
\* loop: the first non-empty of its response, output and text fields, or,
\* for a line that is not JSON, the line itself unless it is blank
Increment(l) ==
    IF l.kind = "json"
    THEN IF l.response \notin {None, ""} THEN l.response
         ELSE IF l.output \notin {None, ""} THEN l.output
         ELSE IF l.text \notin {None, ""} THEN l.text
         ELSE ""
    ELSE IF strip(l.raw) = "" THEN "" ELSE l.raw

\* the run of thread t ends with this step
Ends(t) == pc[t] # "done" /\ pc'[t] = "done"

\* C14, as stated: streaming on a cache miss, the chunks forwarded are the
\* non-empty increments of the lines before the first done line, one chunk
\* per line in arrival order, nothing is forwarded after the done line, and
\* when the stream ends the cache entry of the prompt holds the
\* concatenation of the forwarded chunks
C14_AsStated ==
    [][/\ (GenLine("t1") /\ Head(lines["t1"]).kind # "error") =>
              LET l == Head(lines["t1"])
              IN  IF l.kind = "json" /\ l.done
                  THEN emitted'["t1"] = emitted["t1"] /\ lines'["t1"] = << >>
                  ELSE /\ lines'["t1"] = Tail(lines["t1"])
                       /\ emitted'["t1"] =
                              IF Increment(l) = "" THEN emitted["t1"]
                              ELSE Append(emitted["t1"], Item(Increment(l)))
       /\ (GenStreamEnd("t1") \/ GenCacheLoad("t1") \/ GenCacheSave("t1")) =>
              emitted'["t1"] = emitted["t1"]
       /\ (Ends("t1") /\ stream["t1"] /\ (GenStreamEnd("t1") \/ GenCacheSave("t1"))) =>
              cache_get(cache', cache_key_of(full_prompt["t1"])).v
                  = ItemsText(emitted["t1"])]_vars

\* C15: streaming, when the request fails to connect or times out, gets a
\* non-success status, or the connection fails while the lines are read,
\* nothing of the backend is forwarded after the failure, one error message
\* ending with the disclaimer is emitted as the last item, and the run
\* writes nothing to the cache, the text already forwarded included
C15_FailureEndsStream ==
    /\ [][((Ends("t1") /\ stream["t1"] /\ "failure" \in effects'["t1"])
               \/ (GenLine("t1") /\ Head(lines["t1"]).kind = "error")) =>
              /\ Len(emitted'["t1"]) = Len(emitted["t1"]) + 1
              /\ SubSeq(emitted'["t1"], 1, Len(emitted["t1"])) = emitted["t1"]
              /\ LET last == emitted'["t1"][Len(emitted'["t1"])].reply
                 IN  /\ EndsWith(last, ETHICS_DISCLAIMER)
                     /\ (StartsWith(last, "Error connecting to Ollama: ")
                            \/ StartsWith(last, "Ollama error: HTTP "))
              /\ pc'["t1"] = "done"
              /\ cache' = cache
              /\ "cache_write" \notin effects'["t1"]]_vars
    /\ [](\A i \in 1..Len(completed) :
             (completed[i].stream /\ completed[i].source = "failure") =>
                 /\ ~completed[i].stored
                 /\ completed[i].items # << >>
                 /\ EndsWith(completed[i].items[Len(completed[i].items)].reply,
                             ETHICS_DISCLAIMER))

\* the connection failed after a chunk had been forwarded: the error message
\* follows the chunk, and the cache is still empty
C15_Witness ==
    /\ pc["t1"] = "done"
    /\ stream["t1"]
    /\ Len(emitted["t1"]) = 2
    /\ emitted["t1"][1] = Item("Rest ")
    /\ emitted["t1"][2] = Item(connect_error("ChunkedEncodingError"))
    /\ cache = << >>

-----------------------------------------------------------------------------
(* C16: in incremental mode a line of the backend stream that cannot be    *)
(* parsed does not end the stream: a non-blank raw line is forwarded as    *)
(* literal text at its position, it is added to the accumulated text, and  *)
(* the loop goes on with the lines that follow it.                         *)

Unparsed(t) == lines[t] # << >> /\ Head(lines[t]).kind = "raw"

C16_RawLineForwarded ==
    [][(GenLine("t1") /\ Unparsed("t1")
            /\ strip(Head(lines["t1"]).raw) # "") =>
          /\ emitted'["t1"] = Append(emitted["t1"], Item(Head(lines["t1"]).raw))
          /\ full_text'["t1"] = full_text["t1"] \o Head(lines["t1"]).raw
          /\ lines'["t1"] = Tail(lines["t1"])
          /\ pc'["t1"] = "gen_line"
          /\ completed' = completed]_vars

\* a raw line was forwarded between two parsed chunks and the stream was
\* read to its end
C16_Witness ==
    /\ pc["t1"] = "done"
    /\ stream["t1"]
    /\ \E i \in 2..(Len(emitted["t1"]) - 1) :
           /\ emitted["t1"][i] = Item("not json")
           /\ SubSeq(full_text["t1"], 1, Len(ItemsText(SubSeq(emitted["t1"], 1, i))))
                  = ItemsText(SubSeq(emitted["t1"], 1, i))
    /\ full_text["t1"] = ItemsText(emitted["t1"])

-----------------------------------------------------------------------------
(* C17: when the backend answers a non-incremental generation with a       *)
(* non-success HTTP status, the error text, disclaimer included, is        *)
(* written to the cache under the key of the prompt, and a later call that *)
(* builds the same prompt less than 3600 seconds afterwards hands over     *)
(* that error text without contacting the backend.                         *)

HttpFailure(c) ==
    /\ ~c.stream
    /\ c.source = "failure"
    /\ c.value # None
    /\ StartsWith(c.value, "Ollama error: HTTP ")

C17_ErrorTextCached ==
    /\ [][(GenCacheSave("t1") /\ ~stream["t1"] /\ "failure" \in effects["t1"]) =>
              /\ StartsWith(full_text["t1"], "Ollama error: HTTP ")
              /\ EndsWith(full_text["t1"], ETHICS_DISCLAIMER)
              /\ cache_get(cache', cache_key_of(full_prompt["t1"]))
                     = [v |-> full_text["t1"], t |-> now]
              /\ retval'["t1"] = full_text["t1"]]_vars
    /\ [](\A i \in 1..Len(completed) :
             HttpFailure(completed[i]) =>
                 /\ completed[i].stored
                 /\ EndsWith(completed[i].value, ETHICS_DISCLAIMER)
                 /\ \A j \in 1..Len(completed) :
                        (/\ NextWithSamePrompt(i, j)
                         /\ completed[j].at - completed[i].at < 3600) =>
                            /\ ~completed[j].contacted
                            /\ completed[j].source = "cache"
                            /\ HandedOver(completed[j]) = completed[i].value)

\* an HTTP 500 answered a non-incremental call, and 3599 seconds later a
\* call with the same prompt was served the error text from the cache
C17_Witness ==
    \E i, j \in 1..Len(completed) :
        /\ HttpFailure(completed[i])
        /\ completed[i].value = http_error(500)
        /\ NextWithSamePrompt(i, j)
        /\ completed[j].at - completed[i].at = 3599
        /\ completed[j].source = "cache"
        /\ ~completed[j].contacted
        /\ backendCalls = 1

-----------------------------------------------------------------------------
(* C18: run without interleaving, that is, when the copy a request loaded  *)
(* is still the stored document at the moment it saves, each update of the *)
(* session document changes its own field only: remember_question changes  *)
(* previous_questions under consent and writes nothing without consent,    *)
(* log_interaction changes audit_logs, and the two consent writes of chat  *)
(* change user_consent.                                                    *)

C18_OwnFieldOnly ==
    [][\A t \in Threads :
          /\ RememberLoad(t) =>
                 /\ session' = session
                 /\ ~session.user_consent => pc'[t] = "log_load"
          /\ (RememberSave(t) /\ data[t] = session) =>
                 /\ session.user_consent
                 /\ session'.user_consent = session.user_consent
                 /\ session'.audit_logs = session.audit_logs
                 /\ session'.previous_questions # session.previous_questions
          /\ LogLoad(t) => session' = session
          /\ (LogSave(t) /\ data[t] = session) =>
                 /\ session'.user_consent = session.user_consent
                 /\ session'.previous_questions = session.previous_questions
                 /\ session'.audit_logs # session.audit_logs
          /\ (ConsentSave(t) /\ session_data[t] = session) =>
                 /\ session'.previous_questions = session.previous_questions
                 /\ session'.audit_logs = session.audit_logs
                 /\ session'.user_consent = IsAffirmative(message[t])]_vars

\* one thread alone granted consent and then asked a question: the question
\* was remembered and logged, and the stored document holds consent, the
\* history entry and the audit entry together
C18_Witness ==
    /\ pc["t2"] = "idle"
    /\ pc["t1"] = "gen_prompt"
    /\ {"history", "audit"} \subseteq effects["t1"]
    /\ session.user_consent
    /\ Len(session.previous_questions) = 1
    /\ Len(session.audit_logs) = 1
    /\ data["t1"].previous_questions = session.previous_questions

-----------------------------------------------------------------------------
(* C19: the server is threaded and no save is guarded by a lock.  Every    *)
(* save writes the copy its request loaded earlier, with its own entry     *)
(* added, over whatever is stored at that moment; so there is an           *)
(* interleaving of two requests after which an entry appended by one of    *)
(* them is absent from the stored document.                                *)

C19_LastWriterWins ==
    [][\A t \in Threads :
          /\ RememberSave(t) =>
                 /\ session'.audit_logs = data[t].audit_logs
                 /\ session'.user_consent = data[t].user_consent
                 /\ session'.previous_questions =
                        LastN(Append(data[t].previous_questions,
                                     [q |-> message[t], t |-> now]), 5)
          /\ LogSave(t) =>
                 /\ session'.previous_questions = data[t].previous_questions
                 /\ session'.user_consent = data[t].user_consent
                 /\ Len(session'.audit_logs) <= Len(data[t].audit_logs) + 1
          /\ GenCacheSave(t) =>
                 \A k \in DOMAIN cache' :
                     \/ k = cache_key_of(full_prompt[t])
                     \/ k \in DOMAIN cache_data[t] /\ cache'[k] = cache_data[t][k]]_vars

\* two requests with different messages have both run log_interaction, and
\* the audit log holds the entry of the second thread but not the entry of
\* the first
C19_Witness ==
    /\ "audit" \in effects["t1"]
    /\ "audit" \in effects["t2"]
    /\ message["t1"] # message["t2"]
    /\ \E i \in 1..Len(session.audit_logs) :
           session.audit_logs[i].anon_query = Redact(message["t2"])
    /\ \A i \in 1..Len(session.audit_logs) :
           session.audit_logs[i].anon_query # Redact(message["t1"])

-----------------------------------------------------------------------------
(* C20, as stated: consent is monotonic; once the stored consent flag is   *)
(* true no step of any request, in any interleaving, stores it as false.   *)

C20_AsStated == [][session.user_consent => session'.user_consent]_vars

=============================================================================
